---- MODULE Spec2Model ----
(***************************************************************************)
(* CentosProvisioner (package provision): the bootstrap sequence run by    *)
(* Provision against a host through the SSH command channel, the readiness *)
(* wait, the rendering of the engine configuration by                     *)
(* GenerateDockerOptions, and the methods a caller uses on its own         *)
(* (Package, SetOsReleaseInfo, CompatibleWithHost).                        *)
(*                                                                         *)
(* The repository holds two versions of the provisioner:                   *)
(*   "part_000"  : src/unnamed/part_000 (engine options, template render)  *)
(*   "centos_go" : src/libmachine/provision/centos.go (earlier version)    *)
(* A build contains one of them; `variant` says which.                     *)
(***************************************************************************)
EXTENDS Integers, Sequences, FiniteSets, TLC

(* ------------------------------ bounds -------------------------------- *)

\* Provision calls made on one provisioner.
MaxRuns == 2
\* Probe attempts utils.WaitFor makes before it gives up.
MaxAttempts == 3
\* GenerateDockerOptions calls a caller makes in a row.
MaxCalls == 2
\* Longest option list drawn in the rendering specification.
MaxList == 2

(* ------------------------------ values -------------------------------- *)

Provs == {"p1", "p2"}
Variants == {"part_000", "centos_go"}
MachineNames == {"node1"}
DriverNames == {"packet"}
DockerPorts == {2376, 2377}

\* The port the firewalld service definition opens (the printf of step 5).
FirewallPort == 2376

\* drivers.Driver as the provisioner uses it: GetMachineName, DriverName, and
\* the engine port of the driver's URL.
Drivers ==
    [MachineName : MachineNames, DriverName : DriverNames, Port : DockerPorts]

\* Go zero values of the option structs.
ZeroAuthOptions ==
    [CaCertRemotePath |-> "", ServerCertRemotePath |-> "", ServerKeyRemotePath |-> ""]
ZeroEngineOptions ==
    [Labels |-> <<>>, InsecureRegistry |-> <<>>, RegistryMirror |-> <<>>,
     ArbitraryFlags |-> <<>>, StorageDriver |-> ""]
ZeroSwarmOptions == [IsSwarm |-> FALSE, Master |-> FALSE]

\* Sequences over S of length at most n.
RECURSIVE SeqsUpTo(_, _)
SeqsUpTo(S, n) ==
    IF n = 0 THEN {<<>>}
    ELSE LET shorter == SeqsUpTo(S, n - 1)
         IN shorter \cup {Append(s, x) : s \in {t \in shorter : Len(t) = n - 1}, x \in S}

\* *OsRelease: the nil pointer, and the parsed /etc/os-release of a host.
NilOsRelease == [Id |-> "<nil>", IdLike |-> "<nil>"]
OsReleases ==
    {[Id |-> "centos", IdLike |-> "rhel fedora"],
     [Id |-> "ol", IdLike |-> "centos"],
     [Id |-> "ubuntu", IdLike |-> "debian"]}

\* Package names a caller passes to Package.
PackageNames == {"curl"}

\* pkgaction.PackageAction: the three named actions and a value outside them.
PackageActions == {"Install", "Remove", "Upgrade", "PackageAction(3)"}

\* Inputs a caller passes to Provision in the orchestration specification.
SwarmOptionsSet == {ZeroSwarmOptions, [IsSwarm |-> TRUE, Master |-> TRUE]}
AuthOptionsSet == {ZeroAuthOptions}
\* (centos.go's Provision takes no engine options.)
ProvisionEngineOptions(v) ==
    IF v = "part_000"
    THEN {[ZeroEngineOptions EXCEPT !.StorageDriver = "aufs"],
          [ZeroEngineOptions EXCEPT !.StorageDriver = "aufs", !.Labels = <<"env=prod">>]}
    ELSE {ZeroEngineOptions}

\* Engine options drawn in the rendering specification.
RenderEngineOptions ==
    [Labels : SeqsUpTo({"env=prod", "tier=db"}, MaxList),
     InsecureRegistry : SeqsUpTo({"reg1:5000", "reg2:5000"}, MaxList),
     RegistryMirror : SeqsUpTo({"https://m1"}, MaxList),
     ArbitraryFlags : SeqsUpTo({"debug", "selinux-enabled"}, MaxList),
     StorageDriver : {"aufs"}]

VARIABLES
    variant,   \* which version of the provisioner the build holds
    live,      \* the provisioners that were constructed
    prov,      \* prov[p]: the fields of the CentosProvisioner struct
    run,       \* run[p]: the position and outcome of p's Provision call
    host,      \* host[p]: the files and services of p's host
    calls,     \* calls[p]: GenerateDockerOptions calls made in a row by the caller
    api,       \* api[p]: the caller's calls of Package and CompatibleWithHost
    cancelled  \* cancelled[p]: the cancellation signal of p's caller

vars == <<variant, live, prov, run, host, calls, api, cancelled>>

(* --------------------------- construction ----------------------------- *)

\* The baseline package list of the Centos strategy.
packages == <<"curl">>

\* The registration made by init(): strategy name and factory.
Registered == {[name |-> "Centos", New |-> "NewCentosProvisioner"]}

NewCentosProvisioner(d) ==
    [packages |-> packages,
     OsReleaseInfo |-> NilOsRelease,
     Driver |-> d,
     AuthOptions |-> ZeroAuthOptions,
     EngineOptions |-> ZeroEngineOptions,
     SwarmOptions |-> ZeroSwarmOptions]

\* Calling the factory a registration holds.
New(factory, d) ==
    CASE factory = "NewCentosProvisioner" -> NewCentosProvisioner(d)

\* A slip: the directory the configuration file is in.
GetDockerOptionsDirOfConfig == "/etc/sysconfig"

GetDockerOptionsDir == "/etc/default/docker"

(* ------------------------------ commands ------------------------------ *)

\* A command line handed to SSHCommand: its text (abbreviated) and the values
\* formatted into it.
Cmd(name, args) == [name |-> name, args |-> args]

\* "-t sed -i 's/^Defaults.*requiretty$/#...\n#Defaults    requiretty/g' /etc/sudoers"
SudoersCmd == Cmd("sed_sudoers", <<>>)
\* "sudo hostname %s && echo %q | sudo tee /etc/hostname"
HostnameCmd(hostname) == Cmd("set_hostname", <<hostname, hostname>>)
\* "sudo sed -i '/^127.0.0.1/ s/$/ %s/' /etc/hosts"
HostsCmd(hostname) == Cmd("sed_hosts", <<hostname>>)
\* "yum -y update"
YumUpdateCmd == Cmd("yum_update", <<>>)
\* "printf '...<port protocol="tcp" port="2376"/>...' > /etc/firewalld/services/docker.xml
\*  && sed -i 's/<\/zone>/  <service name="docker"\/>\n<\/zone>/g' /etc/firewalld/zones/public.xml
\*  && service firewalld restart"
FirewalldCmd == Cmd("firewalld", <<>>)
\* "sudo docker version"
DockerVersionCmd == Cmd("docker_version", <<>>)

\* The switch of Package: the yum verb of an action ("" when no case matches).
PackageAction(v, action) ==
    CASE action = "Install" -> "install"
      [] action = "Remove" -> "remove"
      [] action = "Upgrade" /\ v = "part_000" -> "upgrade"
      [] OTHER -> ""

\* "sudo -E yum -y %s %s"
PackageCmd(v, name, action) == Cmd("yum", <<PackageAction(v, action), name>>)

\* Commands of the collaborators that are not part of the provisioner.
InstallDockerCmd == Cmd("install_docker", <<>>)
MkdirCmd(dir) == Cmd("mkdir", <<dir>>)
ConfigureAuthCmd(path) == Cmd("configure_auth", <<path>>)
ConfigureSwarmCmd == Cmd("configure_swarm", <<>>)

(* -------------------------------- host -------------------------------- *)

NoFile == [path |-> "", text |-> <<>>]

\* A clean CentOS host: sudoers holds "Defaults requiretty", the loopback line
\* of /etc/hosts names localhost, the public firewalld zone lists ssh.
CleanHost ==
    [sudoers |-> "requiretty",
     hostname |-> "localhost",
     etc_hostname |-> "localhost",
     hosts_loopback |-> <<"localhost">>,
     updated |-> FALSE,
     installed |-> {},
     docker_xml_port |-> 0,
     zone_services |-> <<"ssh">>,
     docker |-> FALSE,
     dirs |-> {},
     config |-> NoFile,
     auth |-> FALSE,
     swarm |-> FALSE]

\* What a command of the provisioner does to the host when it succeeds.
Exec(h, c) ==
    CASE c.name = "sed_sudoers" ->
           \* only a line that still starts with "Defaults" is rewritten
           [h EXCEPT !.sudoers = IF @ = "requiretty" THEN "commented" ELSE @]
      [] c.name = "set_hostname" ->
           [h EXCEPT !.hostname = c.args[1], !.etc_hostname = c.args[2]]
      [] c.name = "sed_hosts" ->
           \* s/$/ <hostname>/ on the 127.0.0.1 line: appends to the line
           [h EXCEPT !.hosts_loopback = Append(@, c.args[1])]
      [] c.name = "yum_update" ->
           [h EXCEPT !.updated = TRUE]
      [] c.name = "yum" ->
           [h EXCEPT !.installed =
               CASE c.args[1] = "install" -> @ \cup {c.args[2]}
                 [] c.args[1] = "remove" -> @ \ {c.args[2]}
                 [] OTHER -> @]
      [] c.name = "firewalld" ->
           \* printf > docker.xml overwrites; the sed puts one more service
           \* line in front of </zone>
           [h EXCEPT !.docker_xml_port = FirewallPort,
                     !.zone_services = Append(@, "docker")]
      [] OTHER -> h

\* What a command that returned an error may have done: nothing, or the
\* commands of its && chain that came before the failing one.
ExecFailed(h, c) ==
    CASE c.name = "set_hostname" ->
           {h, [h EXCEPT !.hostname = c.args[1]]}
      [] c.name = "firewalld" ->
           {h, [h EXCEPT !.docker_xml_port = FirewallPort], Exec(h, c)}
      [] OTHER -> {h}

\* The host states a command can leave.
Outcomes(h, c, ok) == IF ok THEN {Exec(h, c)} ELSE ExecFailed(h, c)

(* ------------------------------ rendering ----------------------------- *)

\* One line of the rendered text: the flag and the value after it.
Line(flag, arg) == [flag |-> flag, arg |-> arg]

\* {{ range list }}<flag> {{.}}\n{{ end }}
RECURSIVE Range(_, _)
Range(list, flag) ==
    IF list = <<>> THEN <<>>
    ELSE <<Line(flag, Head(list))>> \o Range(Tail(list), flag)

\* {{ range list }}--{{.}}\n{{ end }}
RECURSIVE RangeFlags(_)
RangeFlags(list) ==
    IF list = <<>> THEN <<>>
    ELSE <<Line("--" \o Head(list), "")>> \o RangeFlags(Tail(list))

\* A plausible slip in the template: the insecure-registry range copied for
\* the mirrors without renaming the flag.
engineConfigTmplCopied(ctx) ==
    <<Line("", ""),
      Line("OPTIONS='", ""),
      Line("-H", "tcp://0.0.0.0:" \o ToString(ctx.DockerPort)),
      Line("-H", "unix:///var/run/docker.sock"),
      Line("--storage-driver", ctx.EngineOptions.StorageDriver),
      Line("--tlsverify", ""),
      Line("--tlscacert", ctx.AuthOptions.CaCertRemotePath),
      Line("--tlscert", ctx.AuthOptions.ServerCertRemotePath),
      Line("--tlskey", ctx.AuthOptions.ServerKeyRemotePath)>>
    \o Range(ctx.EngineOptions.Labels, "--label")
    \o Range(ctx.EngineOptions.InsecureRegistry, "--insecure-registry")
    \o Range(ctx.EngineOptions.RegistryMirror, "--insecure-registry")
    \o RangeFlags(ctx.EngineOptions.ArbitraryFlags)
    \o <<Line("", ""), Line("'", "")>>

\* engineConfigTmpl executed on an EngineConfigContext: the lines of the text.
engineConfigTmpl(ctx) ==
    <<Line("", ""),
      Line("OPTIONS='", ""),
      Line("-H", "tcp://0.0.0.0:" \o ToString(ctx.DockerPort)),
      Line("-H", "unix:///var/run/docker.sock"),
      Line("--storage-driver", ctx.EngineOptions.StorageDriver),
      Line("--tlsverify", ""),
      Line("--tlscacert", ctx.AuthOptions.CaCertRemotePath),
      Line("--tlscert", ctx.AuthOptions.ServerCertRemotePath),
      Line("--tlskey", ctx.AuthOptions.ServerKeyRemotePath)>>
    \o Range(ctx.EngineOptions.Labels, "--label")
    \o Range(ctx.EngineOptions.InsecureRegistry, "--insecure-registry")
    \o Range(ctx.EngineOptions.RegistryMirror, "--registry-mirror")
    \o RangeFlags(ctx.EngineOptions.ArbitraryFlags)
    \o <<Line("", ""), Line("'", "")>>

\* GenerateDockerOptions of part_000: the provisioner after the call (its label
\* list is assigned), the context handed to the template, and the result.
GenerateDockerOptions(pr, dockerPort) ==
    LET driverNameLabel == "provider=" \o pr.Driver.DriverName
        after == [pr EXCEPT !.EngineOptions.Labels = Append(@, driverNameLabel)]
        engineConfigContext ==
            [DockerPort |-> dockerPort,
             AuthOptions |-> after.AuthOptions,
             EngineOptions |-> after.EngineOptions]
    IN [prov |-> after,
        ctx |-> engineConfigContext,
        out |-> [EngineOptions |-> engineConfigTmpl(engineConfigContext),
                 EngineOptionsPath |-> "/etc/sysconfig/docker"]]

\* getDefaultDaemonOpts(driverName, authOptions): the TLS flags and the
\* provider label.
getDefaultDaemonOpts(driverName, authOptions) ==
    <<Line("--tlsverify", ""),
      Line("--tlscacert", authOptions.CaCertRemotePath),
      Line("--tlskey", authOptions.ServerKeyRemotePath),
      Line("--tlscert", authOptions.ServerCertRemotePath),
      Line("--label", "provider=" \o driverName)>>

\* GenerateDockerOptions of centos.go: formats its arguments, assigns nothing.
GenerateDockerOptions_centos_go(pr, dockerPort, authOptions) ==
    LET defaultDaemonOpts == getDefaultDaemonOpts(pr.Driver.DriverName, authOptions)
        daemonOpts ==
            <<Line("--host", "unix:///var/run/docker.sock"),
              Line("--host", "tcp://0.0.0.0:" \o ToString(dockerPort))>>
    IN [prov |-> pr,
        ctx |-> [DockerPort |-> dockerPort,
                 AuthOptions |-> authOptions,
                 EngineOptions |-> ZeroEngineOptions],
        out |-> [EngineOptions |->
                     <<Line("OPTIONS='", "")>> \o defaultDaemonOpts \o daemonOpts
                         \o <<Line("'", "")>>,
                 EngineOptionsPath |-> "/etc/sysconfig/docker"]]

\* The version of the build's GenerateDockerOptions.
Render(v, pr, dockerPort, authOptions) ==
    IF v = "part_000" THEN GenerateDockerOptions(pr, dockerPort)
    ELSE GenerateDockerOptions_centos_go(pr, dockerPort, authOptions)

(* ---------------------------- the run record --------------------------- *)

NoCmd == Cmd("", <<>>)
NoError == [kind |-> "none", cmd |-> NoCmd]
Nil == [kind |-> "nil", cmd |-> NoCmd]
\* The error SSHCommand returned for command c.
SSHError(c) == [kind |-> "ssh", cmd |-> c]
\* The error of utils.WaitFor after its last attempt.
MaxRetriesError == [kind |-> "max_retries", cmd |-> NoCmd]

NoArgs ==
    [swarmOptions |-> ZeroSwarmOptions, authOptions |-> ZeroAuthOptions,
     engineOptions |-> ZeroEngineOptions]

\* The caller's cancellation signal: whether it was raised, and the run, call
\* site and number of issued commands at the moment it was.
NoSignal == [raised |-> FALSE, n |-> 0, pc |-> "none", issued |-> 0]

\* status: NotStarted, Running, Succeeded, Failed.  pc: the call site Provision
\* is at (it stays at the failing one).  issued: the commands handed to
\* SSHCommand in this run, with their outcome.  done: the indices of the steps
\* completed in this run.  err: what Provision returned.  n: Provision calls
\* made so far.  ends: arguments and host state at each successful return.
NotStarted ==
    [status |-> "NotStarted", pc |-> "none", pkgIdx |-> 1, attempts |-> 0,
     issued |-> <<>>, done |-> <<>>, err |-> NoError, n |-> 0,
     args |-> NoArgs, ends |-> <<>>]

\* The call sites of Provision, in program order, with the orderings a slip
\* would give.
ProvisionStepsFirewallFirst(v) ==
    IF v = "part_000"
    THEN <<"sudoers", "set_hostname", "sed_hosts", "yum_update", "firewalld",
           "packages", "install_docker", "wait_docker", "mkdir", "auth_resolve",
           "config_auth", "config_swarm">>
    ELSE <<"sudoers", "set_hostname", "sed_hosts", "yum_update", "firewalld",
           "packages", "install_docker", "wait_docker", "config_auth",
           "config_swarm">>

ProvisionStepsInstallFirst(v) ==
    IF v = "part_000"
    THEN <<"sudoers", "set_hostname", "sed_hosts", "yum_update", "install_docker",
           "packages", "firewalld", "wait_docker", "mkdir", "auth_resolve",
           "config_auth", "config_swarm">>
    ELSE <<"sudoers", "set_hostname", "sed_hosts", "yum_update", "install_docker",
           "packages", "firewalld", "wait_docker", "config_auth",
           "config_swarm">>

ProvisionSteps(v) ==
    IF v = "part_000"
    THEN <<"sudoers", "set_hostname", "sed_hosts", "yum_update", "packages",
           "firewalld", "install_docker", "wait_docker", "mkdir", "auth_resolve",
           "config_auth", "config_swarm">>
    ELSE <<"sudoers", "set_hostname", "sed_hosts", "yum_update", "packages",
           "firewalld", "install_docker", "wait_docker", "config_auth",
           "config_swarm">>

\* The step of the bootstrap sequence a call site belongs to.
StepIndex(pc) ==
    CASE pc = "sudoers" -> 1
      [] pc \in {"set_hostname", "sed_hosts"} -> 2
      [] pc = "yum_update" -> 3
      [] pc = "packages" -> 4
      [] pc = "firewalld" -> 5
      [] pc = "install_docker" -> 6
      [] pc = "wait_docker" -> 7
      [] pc = "mkdir" -> 8
      [] pc = "auth_resolve" -> 9
      [] pc = "config_auth" -> 10
      [] pc = "config_swarm" -> 11
      [] OTHER -> 0

\* The step a command belongs to.
StepOfCmd(c) ==
    CASE c.name = "sed_sudoers" -> 1
      [] c.name \in {"set_hostname", "sed_hosts"} -> 2
      [] c.name = "yum_update" -> 3
      [] c.name = "yum" -> 4
      [] c.name = "firewalld" -> 5
      [] c.name = "install_docker" -> 6
      [] c.name = "docker_version" -> 7
      [] c.name = "mkdir" -> 8
      [] c.name = "configure_auth" -> 10
      [] c.name = "configure_swarm" -> 11
      [] OTHER -> 0

IndexOf(s, x) == CHOOSE i \in 1..Len(s) : s[i] = x

\* Falling through to the next statement of Provision; after the last one,
\* "return nil".
Move(r, v) ==
    LET s == ProvisionSteps(v)
        i == IndexOf(s, r.pc)
        next == IF i = Len(s) THEN "return" ELSE s[i + 1]
        r1 == IF StepIndex(next) # StepIndex(r.pc)
              THEN [r EXCEPT !.done = Append(@, StepIndex(r.pc))]
              ELSE r
    IN IF next = "return"
       THEN [r1 EXCEPT !.pc = next, !.status = "Succeeded", !.err = Nil]
       ELSE [r1 EXCEPT !.pc = next]

\* The package loop runs no iteration over an empty list.
Advance(r, v, pr) ==
    LET r1 == Move(r, v)
    IN IF r1.pc = "packages" /\ Len(pr.packages) = 0 THEN Move(r1, v) ELSE r1

Issue(r, c, ok) == [r EXCEPT !.issued = Append(@, [cmd |-> c, ok |-> ok])]

\* "return err"
Return(r, e) == [r EXCEPT !.status = "Failed", !.err = e]

\* Slips in the error handling: the error is dropped, or the command is tried again.
AfterCommandIgnoringError(r, c, ok, v, pr) ==
    Advance(Issue(r, c, ok), v, pr)

AfterCommandRetrying(r, c, ok, v, pr) ==
    IF ok THEN Advance(Issue(r, c, ok), v, pr) ELSE Issue(r, c, ok)

\* if _, err := provisioner.SSHCommand(c); err != nil { return err }
AfterCommand(r, c, ok, v, pr) ==
    IF ok THEN Advance(Issue(r, c, ok), v, pr)
    ELSE Return(Issue(r, c, ok), SSHError(c))

Running(p, pc) ==
    /\ p \in live
    /\ run[p].status = "Running"
    /\ run[p].pc = pc

\* A successful return records the arguments and the host it leaves.
Ended(r, h) ==
    IF r.status = "Succeeded"
    THEN [r EXCEPT !.ends = Append(@, [args |-> r.args, host |-> h])]
    ELSE r

\* One command of Provision whose error is returned as it is.
Command(p, c, ok) ==
    \E h \in Outcomes(host[p], c, ok) :
        /\ run' = [run EXCEPT ![p] = Ended(AfterCommand(@, c, ok, variant, prov[p]), h)]
        /\ host' = [host EXCEPT ![p] = h]
        /\ UNCHANGED <<api, cancelled, variant, live, prov, calls>>

(* ------------------------------ Provision ------------------------------ *)

\* A slip: the options kept in one package-level variable that every
\* provisioner reads.
ProvisionSharingOptions(p, swarmOptions, authOptions, engineOptions) ==
    /\ p \in live
    /\ run[p].status # "Running"
    /\ run[p].n < MaxRuns
    /\ prov' = [q \in Provs |->
                  IF variant = "part_000"
                  THEN [prov[q] EXCEPT !.SwarmOptions = swarmOptions,
                                       !.AuthOptions = authOptions,
                                       !.EngineOptions = engineOptions]
                  ELSE prov[q]]
    /\ run' = [run EXCEPT ![p] =
                  [NotStarted EXCEPT
                      !.status = "Running",
                      !.pc = ProvisionSteps(variant)[1],
                      !.n = run[p].n + 1,
                      !.ends = run[p].ends,
                      !.args = [swarmOptions |-> swarmOptions,
                                authOptions |-> authOptions,
                                engineOptions |-> engineOptions]]]
    /\ calls' = [calls EXCEPT ![p] = <<>>]
    /\ UNCHANGED <<api, cancelled, variant, live, host>>

\* The caller calls Provision.  The part_000 version stores its three
\* arguments in the provisioner; centos.go takes no engine options and
\* stores nothing.
Provision(p, swarmOptions, authOptions, engineOptions) ==
    /\ p \in live
    /\ run[p].status # "Running"
    /\ run[p].n < MaxRuns
    /\ prov' = [prov EXCEPT ![p] =
                  IF variant = "part_000"
                  THEN [@ EXCEPT !.SwarmOptions = swarmOptions,
                                 !.AuthOptions = authOptions,
                                 !.EngineOptions = engineOptions]
                  ELSE @]
    /\ run' = [run EXCEPT ![p] =
                  [NotStarted EXCEPT
                      !.status = "Running",
                      !.pc = ProvisionSteps(variant)[1],
                      !.n = run[p].n + 1,
                      !.ends = run[p].ends,
                      !.args = [swarmOptions |-> swarmOptions,
                                authOptions |-> authOptions,
                                engineOptions |-> engineOptions]]]
    /\ calls' = [calls EXCEPT ![p] = <<>>]
    /\ UNCHANGED <<api, cancelled, variant, live, host>>

\* Step 1: the requiretty fix of /etc/sudoers.
FixSudoers(p, ok) ==
    /\ Running(p, "sudoers")
    /\ Command(p, SudoersCmd, ok)

\* Step 2, SetHostname: the hostname command ...
SetHostname(p, ok) ==
    /\ Running(p, "set_hostname")
    /\ Command(p, HostnameCmd(prov[p].Driver.MachineName), ok)

\* ... and the sed on the loopback line of /etc/hosts.
SetHostnameHosts(p, ok) ==
    /\ Running(p, "sed_hosts")
    /\ Command(p, HostsCmd(prov[p].Driver.MachineName), ok)

\* Step 3: yum -y update.
YumUpdate(p, ok) ==
    /\ Running(p, "yum_update")
    /\ Command(p, YumUpdateCmd, ok)

\* Step 4: one iteration of the loop over provisioner.packages, calling
\* Package(pkg, pkgaction.Install).
Package(p, ok) ==
    /\ Running(p, "packages")
    /\ LET r == run[p]
           c == PackageCmd(variant, prov[p].packages[r.pkgIdx], "Install")
       IN IF ok /\ r.pkgIdx < Len(prov[p].packages)
          THEN /\ run' = [run EXCEPT ![p] = [Issue(r, c, ok) EXCEPT !.pkgIdx = @ + 1]]
               /\ host' = [host EXCEPT ![p] = Exec(@, c)]
               /\ UNCHANGED <<api, cancelled, variant, live, prov, calls>>
          ELSE Command(p, c, ok)

\* Step 5: the firewalld service definition, the public zone, the restart.
ConfigFirewalld(p, ok) ==
    /\ Running(p, "firewalld")
    /\ Command(p, FirewalldCmd, ok)

\* Step 6: the generic engine installation, a collaborator that issues its
\* command through the provisioner.
installDockerGeneric(p, ok) ==
    /\ Running(p, "install_docker")
    /\ run' = [run EXCEPT ![p] = AfterCommand(@, InstallDockerCmd, ok, variant, prov[p])]
    /\ host' = [host EXCEPT ![p] = IF ok THEN [@ EXCEPT !.docker = TRUE] ELSE @]
    /\ UNCHANGED <<api, cancelled, variant, live, prov, calls>>

\* dockerDaemonResponding: false when the probe command returned an error.
dockerDaemonRespondingAlways(ok) == TRUE

dockerDaemonResponding(ok) == ok

\* utils.WaitFor after one more probe: "nil" when the probe answered true,
\* "max_retries" after the last attempt, "retry" otherwise.
WaitForResult(attempts, responding) ==
    IF responding THEN "nil"
    ELSE IF attempts + 1 >= MaxAttempts THEN "max_retries"
    ELSE "retry"

\* A slip: the error of the wait is not returned.
AfterWaitForIgnoringError(r, werr, v, pr) == Advance(r, v, pr)

\* if err := utils.WaitFor(provisioner.dockerDaemonResponding); err != nil { return err }
AfterWaitFor(r, werr, v, pr) ==
    IF werr.kind # "nil" THEN Return(r, werr) ELSE Advance(r, v, pr)

\* Step 7: one probe of the readiness wait.
WaitFor(p, ok) ==
    /\ Running(p, "wait_docker")
    /\ LET r == Issue(run[p], DockerVersionCmd, ok)
           res == WaitForResult(run[p].attempts, dockerDaemonResponding(ok))
       IN run' = [run EXCEPT ![p] =
                     CASE res = "retry" -> [r EXCEPT !.attempts = @ + 1]
                       [] res = "nil" -> AfterWaitFor(r, Nil, variant, prov[p])
                       [] OTHER -> AfterWaitFor(r, MaxRetriesError, variant, prov[p])]
    /\ UNCHANGED <<api, cancelled, variant, live, prov, host, calls>>

\* Step 8: the collaborator that creates GetDockerOptionsDir() on the host.
makeDockerOptionsDir(p, ok) ==
    /\ Running(p, "mkdir")
    /\ run' = [run EXCEPT ![p] =
                  AfterCommand(@, MkdirCmd(GetDockerOptionsDir), ok, variant, prov[p])]
    /\ host' = [host EXCEPT ![p] =
                   IF ok THEN [@ EXCEPT !.dirs = @ \cup {GetDockerOptionsDir}] ELSE @]
    /\ UNCHANGED <<api, cancelled, variant, live, prov, calls>>

\* Step 9: provisioner.AuthOptions = setRemoteAuthOptions(provisioner); the
\* remote paths are resolved under the options directory, no command is issued.
setRemoteAuthOptions(p) ==
    /\ Running(p, "auth_resolve")
    /\ prov' = [prov EXCEPT ![p].AuthOptions =
                   [CaCertRemotePath |-> GetDockerOptionsDir \o "/ca.pem",
                    ServerCertRemotePath |-> GetDockerOptionsDir \o "/server.pem",
                    ServerKeyRemotePath |-> GetDockerOptionsDir \o "/server-key.pem"]]
    /\ run' = [run EXCEPT ![p] = Advance(@, variant, prov[p])]
    /\ UNCHANGED <<api, cancelled, variant, live, host, calls>>

\* Step 10: ConfigureAuth renders the engine configuration for the driver's
\* port and persists it at the returned path.
ConfigureAuth(p, ok) ==
    /\ Running(p, "config_auth")
    /\ LET g == Render(variant, prov[p], prov[p].Driver.Port, run[p].args.authOptions)
       IN /\ prov' = [prov EXCEPT ![p] = g.prov]
          /\ run' = [run EXCEPT ![p] =
                        AfterCommand(@, ConfigureAuthCmd(g.out.EngineOptionsPath), ok,
                                     variant, prov[p])]
          /\ host' = [host EXCEPT ![p] =
                         IF ok
                         THEN [@ EXCEPT !.auth = TRUE,
                                        !.config = [path |-> g.out.EngineOptionsPath,
                                                    text |-> g.out.EngineOptions]]
                         ELSE @]
    /\ UNCHANGED <<api, cancelled, variant, live, calls>>

\* Step 11: configureSwarm(provisioner, swarmOptions).
configureSwarm(p, ok) ==
    LET h == IF ok THEN [host[p] EXCEPT !.swarm = run[p].args.swarmOptions.IsSwarm]
             ELSE host[p]
    IN /\ Running(p, "config_swarm")
       /\ run' = [run EXCEPT ![p] =
                     Ended(AfterCommand(@, ConfigureSwarmCmd, ok, variant, prov[p]), h)]
       /\ host' = [host EXCEPT ![p] = h]
       /\ UNCHANGED <<api, cancelled, variant, live, prov, calls>>

\* A caller outside Provision calls GenerateDockerOptions.
CallGenerateDockerOptions(p, dockerPort, authOptions) ==
    /\ p \in live
    /\ run[p].status # "Running"
    /\ Len(calls[p]) < MaxCalls
    /\ LET g == Render(variant, prov[p], dockerPort, authOptions)
       IN /\ prov' = [prov EXCEPT ![p] = g.prov]
          /\ calls' = [calls EXCEPT ![p] =
                          Append(@, [dockerPort |-> dockerPort,
                                     authOptions |-> authOptions,
                                     supplied |-> run[p].args.engineOptions,
                                     ctx |-> g.ctx,
                                     out |-> g.out])]
    /\ UNCHANGED <<api, cancelled, variant, live, run, host>>

(* ------------------- the other methods, called by a caller ------------- *)

\* One entry of api[p]: the method, its arguments, the commands it handed to
\* SSHCommand, the error and the value it returned.
ApiCall(op, name, action, issued, err, result) ==
    [op |-> op, name |-> name, action |-> action, issued |-> issued,
     err |-> err, result |-> result]

\* A caller calls Package(name, action).  The command is formatted whatever
\* the switch left in packageAction and handed to SSHCommand; its error is
\* returned as it is.  (yum given no verb exits non-zero.)
CallPackage(p, name, action, ok) ==
    /\ p \in live
    /\ run[p].status # "Running"
    /\ Len(api[p]) < MaxCalls
    /\ PackageAction(variant, action) = "" => ~ok
    /\ LET c == PackageCmd(variant, name, action)
       IN /\ api' = [api EXCEPT ![p] =
                        Append(@, ApiCall("Package", name, action,
                                          <<[cmd |-> c, ok |-> ok]>>,
                                          IF ok THEN Nil ELSE SSHError(c), "none"))]
          /\ \E h \in Outcomes(host[p], c, ok) : host' = [host EXCEPT ![p] = h]
    /\ UNCHANGED <<cancelled, variant, live, prov, run, calls>>

SetOsReleaseInfo(p, info) ==
    /\ p \in live
    /\ prov' = [prov EXCEPT ![p].OsReleaseInfo = info]
    /\ UNCHANGED <<api, cancelled, variant, live, run, host, calls>>

\* A slip: the ID_LIKE field is accepted as well.
CompatibleWithHostOrLike(pr) ==
    IF pr.OsReleaseInfo = NilOsRelease THEN "panic"
    ELSE IF pr.OsReleaseInfo.Id = "centos" \/ pr.OsReleaseInfo.IdLike = "centos"
         THEN "true" ELSE "false"

\* return provisioner.OsReleaseInfo.Id == "centos"  (a nil pointer panics)
CompatibleWithHost(pr) ==
    IF pr.OsReleaseInfo = NilOsRelease THEN "panic"
    ELSE IF pr.OsReleaseInfo.Id = "centos" THEN "true" ELSE "false"

\* A caller (the detection of the strategy) calls CompatibleWithHost.
CallCompatibleWithHost(p) ==
    /\ p \in live
    /\ Len(api[p]) < MaxCalls
    /\ api' = [api EXCEPT ![p] =
                  Append(@, ApiCall("CompatibleWithHost", prov[p].OsReleaseInfo.Id, "",
                                    <<>>, Nil, CompatibleWithHost(prov[p])))]
    /\ UNCHANGED <<cancelled, variant, live, prov, run, host, calls>>

\* The caller raises its cancellation signal while Provision runs.  Provision
\* takes no signal and reads none: nothing but the signal changes.
Cancel(p) ==
    /\ p \in live
    /\ run[p].status = "Running"
    /\ ~(cancelled[p].raised /\ cancelled[p].n = run[p].n)
    /\ cancelled' = [cancelled EXCEPT ![p] =
                        [raised |-> TRUE, n |-> run[p].n, pc |-> run[p].pc,
                         issued |-> Len(run[p].issued)]]
    /\ UNCHANGED <<api, variant, live, prov, run, host, calls>>

(* --------------------------- specifications --------------------------- *)

\* One provisioner was constructed for a clean host; the second stays unused.
Init ==
    /\ variant \in Variants
    /\ live = {"p1"}
    /\ \E d \in Drivers : prov = [p \in Provs |-> NewCentosProvisioner(d)]
    /\ run = [p \in Provs |-> NotStarted]
    /\ host = [p \in Provs |-> CleanHost]
    /\ calls = [p \in Provs |-> <<>>]
    /\ api = [p \in Provs |-> <<>>]
    /\ cancelled = [p \in Provs |-> NoSignal]

\* A statement of Provision executes.
Step(p) ==
    \/ \E ok \in BOOLEAN : FixSudoers(p, ok)
    \/ \E ok \in BOOLEAN : SetHostname(p, ok)
    \/ \E ok \in BOOLEAN : SetHostnameHosts(p, ok)
    \/ \E ok \in BOOLEAN : YumUpdate(p, ok)
    \/ \E ok \in BOOLEAN : Package(p, ok)
    \/ \E ok \in BOOLEAN : ConfigFirewalld(p, ok)
    \/ \E ok \in BOOLEAN : installDockerGeneric(p, ok)
    \/ \E ok \in BOOLEAN : WaitFor(p, ok)
    \/ \E ok \in BOOLEAN : makeDockerOptionsDir(p, ok)
    \/ setRemoteAuthOptions(p)
    \/ \E ok \in BOOLEAN : ConfigureAuth(p, ok)
    \/ \E ok \in BOOLEAN : configureSwarm(p, ok)

Next ==
    \/ \E p \in Provs : Step(p)
    \/ \E p \in Provs, sw \in SwarmOptionsSet, au \in AuthOptionsSet,
          eo \in ProvisionEngineOptions(variant) :
          Provision(p, sw, au, eo)
    \/ \E p \in Provs, port \in DockerPorts, au \in AuthOptionsSet :
          CallGenerateDockerOptions(p, port, au)

Spec == Init /\ [][Next]_vars

\* Each SSH command returns, so a running Provision takes its next step.
FairSpec == Spec /\ WF_vars(\E p \in Provs : Step(p))

\* Rendering on its own.  The state Provision leaves when its first command
\* fails: the arguments are stored (part_000), nothing was rendered yet.
InitRender ==
    /\ variant \in Variants
    /\ live = {"p1"}
    /\ \E d \in {x \in Drivers : x.Port = FirewallPort},
          eo \in RenderEngineOptions \cup {ZeroEngineOptions} :
          /\ variant = "centos_go" => eo = ZeroEngineOptions
          /\ prov = [p \in Provs |->
                       IF p = "p1" /\ variant = "part_000"
                       THEN [NewCentosProvisioner(d) EXCEPT !.EngineOptions = eo]
                       ELSE NewCentosProvisioner(d)]
          /\ run = [p \in Provs |->
                      IF p = "p1"
                      THEN [NotStarted EXCEPT
                               !.status = "Failed",
                               !.pc = "sudoers",
                               !.n = 1,
                               !.issued = <<[cmd |-> SudoersCmd, ok |-> FALSE]>>,
                               !.err = SSHError(SudoersCmd),
                               !.args = [NoArgs EXCEPT !.engineOptions = eo]]
                      ELSE NotStarted]
    /\ host = [p \in Provs |-> CleanHost]
    /\ calls = [p \in Provs |-> <<>>]
    /\ api = [p \in Provs |-> <<>>]
    /\ cancelled = [p \in Provs |-> NoSignal]

NextRender ==
    \E p \in Provs, port \in DockerPorts, au \in AuthOptionsSet :
        CallGenerateDockerOptions(p, port, au)

SpecRender == InitRender /\ [][NextRender]_vars

\* The methods a caller uses outside Provision, on a provisioner made by the
\* registered factory.
InitApi ==
    /\ variant \in Variants
    /\ live = {"p1"}
    /\ \E d \in Drivers, reg \in Registered :
          prov = [p \in Provs |-> New(reg.New, d)]
    /\ run = [p \in Provs |-> NotStarted]
    /\ host = [p \in Provs |-> CleanHost]
    /\ calls = [p \in Provs |-> <<>>]
    /\ api = [p \in Provs |-> <<>>]
    /\ cancelled = [p \in Provs |-> NoSignal]

NextApi ==
    \/ \E p \in Provs, name \in PackageNames, action \in PackageActions,
          ok \in BOOLEAN : CallPackage(p, name, action, ok)
    \/ \E p \in Provs, info \in OsReleases : SetOsReleaseInfo(p, info)
    \/ \E p \in Provs : CallCompatibleWithHost(p)

SpecApi == InitApi /\ [][NextApi]_vars

\* Two provisioners for two hosts, each with its own driver.
PairDriver(p) ==
    [MachineName |-> IF p = "p1" THEN "node1" ELSE "node2",
     DriverName |-> "packet",
     Port |-> IF p = "p1" THEN 2376 ELSE 2377]

\* Both were constructed, and each has one run left: an earlier Provision of
\* each (with zero options) failed at its first command and left the host as
\* it was.
InitPair ==
    /\ variant \in Variants
    /\ live = Provs
    /\ prov = [p \in Provs |-> NewCentosProvisioner(PairDriver(p))]
    /\ run = [p \in Provs |->
                [NotStarted EXCEPT
                    !.status = "Failed",
                    !.pc = "sudoers",
                    !.n = MaxRuns - 1,
                    !.issued = <<[cmd |-> SudoersCmd, ok |-> FALSE]>>,
                    !.err = SSHError(SudoersCmd)]]
    /\ host = [p \in Provs |-> CleanHost]
    /\ calls = [p \in Provs |-> <<>>]
    /\ api = [p \in Provs |-> <<>>]
    /\ cancelled = [p \in Provs |-> NoSignal]

\* The two callers and the two runs interleave in any order.
NextPair ==
    \/ \E p \in Provs : Step(p)
    \/ \E p \in Provs, sw \in SwarmOptionsSet, au \in AuthOptionsSet,
          eo \in ProvisionEngineOptions(variant) :
          Provision(p, sw, au, eo)

SpecPair == InitPair /\ [][NextPair]_vars

\* Provision with a caller that may raise its cancellation signal.
NextCancel ==
    \/ \E p \in Provs : Step(p)
    \/ \E p \in Provs, sw \in SwarmOptionsSet, au \in AuthOptionsSet,
          eo \in ProvisionEngineOptions(variant) :
          Provision(p, sw, au, eo)
    \/ \E p \in Provs : Cancel(p)

SpecCancel == Init /\ [][NextCancel]_vars

(* ------------------------- helpers of the properties---------------------- *)

Last(s) == s[Len(s)]
IsProbe(e) == e.cmd = DockerVersionCmd
\* The positions of r.issued that hold command c.
Positions(r, c) == {i \in 1..Len(r.issued) : r.issued[i].cmd = c}
PositionsNamed(r, name) == {i \in 1..Len(r.issued) : r.issued[i].cmd.name = name}
FailedProbes(r) == {i \in 1..Len(r.issued) : IsProbe(r.issued[i]) /\ ~r.issued[i].ok}
GoodProbes(r) == {i \in 1..Len(r.issued) : IsProbe(r.issued[i]) /\ r.issued[i].ok}

(* -------------------------------- C1 ---------------------------------- *)

\* C1: when a step of Provision fails (its command returns an error; for the
\* readiness wait, the wait returns its error), Provision returns that error,
\* the failed command is the last command of the run, and every command of
\* the run belongs to the failing step or to a step before it: no command of
\* a later step and no compensating command is issued.
C1_FirstErrorAborts ==
    \A p \in Provs :
        LET r == run[p]
        IN /\ \A i \in 1..Len(r.issued) :
                  (~r.issued[i].ok /\ ~IsProbe(r.issued[i])) =>
                      /\ i = Len(r.issued)
                      /\ r.status = "Failed"
                      /\ r.err = SSHError(r.issued[i].cmd)
                      /\ StepIndex(r.pc) = StepOfCmd(r.issued[i].cmd)
           /\ r.status = "Failed" =>
                  /\ r.err.kind \in {"ssh", "max_retries"}
                  /\ Len(r.issued) > 0
                  /\ ~Last(r.issued).ok
                  /\ StepOfCmd(Last(r.issued).cmd) = StepIndex(r.pc)
                  /\ \A i \in 1..Len(r.issued) :
                         StepOfCmd(r.issued[i].cmd) <= StepIndex(r.pc)
                  /\ \A k \in 1..Len(r.done) : r.done[k] < StepIndex(r.pc)

\* A run failed at the package install: the firewall command was never issued.
C1_Witness ==
    \E p \in Provs :
        /\ run[p].status = "Failed"
        /\ run[p].pc = "packages"
        /\ Last(run[p].issued).cmd = PackageCmd(variant, "curl", "Install")
        /\ Positions(run[p], FirewalldCmd) = {}

(* -------------------------------- C2 ---------------------------------- *)

\* The steps a successful run of the build's Provision executes.
C2_StepsOfVariant ==
    IF variant = "part_000" THEN <<1, 2, 3, 4, 5, 6, 7, 8, 9, 10, 11>>
    ELSE <<1, 2, 3, 4, 5, 6, 7, 10, 11>>

\* The steps of the successful commands a full run issues.
C2_CommandSteps ==
    IF variant = "part_000" THEN <<1, 2, 2, 3, 4, 5, 6, 7, 8, 10, 11>>
    ELSE <<1, 2, 2, 3, 4, 5, 6, 7, 10, 11>>

C2_OkSteps(r) ==
    LET oks == SelectSeq(r.issued, LAMBDA e : e.ok)
    IN [i \in 1..Len(oks) |-> StepOfCmd(oks[i].cmd)]

\* C2 as stated: step k starts only after steps 1..k-1 have succeeded, and a
\* run that ends in Succeeded has executed the eleven steps 1..11 exactly
\* once, in order.
C2_ElevenSteps ==
    \A p \in Provs :
        LET r == run[p]
        IN /\ r.status = "Running" =>
                  r.done = [i \in 1..(StepIndex(r.pc) - 1) |-> i]
           /\ r.status = "Succeeded" =>
                  r.done = <<1, 2, 3, 4, 5, 6, 7, 8, 9, 10, 11>>

\* C2 amended: the part_000 version executes the eleven steps; the centos.go
\* version has no step 8 and no step 9 and executes steps 1-7, 10, 11.  In
\* both versions a step starts only after every earlier step of the version's
\* sequence has succeeded, and a successful run has executed each step of the
\* sequence exactly once, in order.
C2_StepsInOrder ==
    \A p \in Provs :
        LET r == run[p]
            seq == C2_StepsOfVariant
        IN /\ r.status \in {"Running", "Failed"} =>
                  /\ \E k \in 1..Len(seq) :
                         /\ seq[k] = StepIndex(r.pc)
                         /\ r.done = SubSeq(seq, 1, k - 1)
           /\ r.status = "Succeeded" =>
                  /\ r.done = seq
                  /\ C2_OkSteps(r) = C2_CommandSteps
           /\ \A i, j \in 1..Len(r.issued) :
                  i < j => StepOfCmd(r.issued[i].cmd) <= StepOfCmd(r.issued[j].cmd)

\* A run of the centos.go version succeeded after nine steps.
C2_Witness ==
    \E p \in Provs :
        /\ variant = "centos_go"
        /\ run[p].status = "Succeeded"
        /\ Len(run[p].done) = 9

(* -------------------------------- C3 ---------------------------------- *)

\* C3: the install commands of a run are Package(pkg, Install) for the
\* elements of the package list, one per element, in list order, and only the
\* last of them can have failed; once step 4 is complete the run has issued
\* the install of "curl" exactly once; every install command precedes every
\* command of the engine-installation routine.
C3_BaselinePackages ==
    \A p \in Provs :
        LET r == run[p]
            yum == SelectSeq(r.issued, LAMBDA e : e.cmd.name = "yum")
        IN /\ Len(yum) <= Len(prov[p].packages)
           /\ \A i \in 1..Len(yum) :
                  /\ yum[i].cmd = Cmd("yum", <<"install", prov[p].packages[i]>>)
                  /\ i < Len(yum) => yum[i].ok
           /\ (Len(yum) > 0 /\ ~Last(yum).ok) => (r.status = "Failed" /\ r.pc = "packages")
           /\ (\E k \in 1..Len(r.done) : r.done[k] = 4) =>
                  /\ prov[p].packages = <<"curl">>
                  /\ Cardinality(Positions(r, Cmd("yum", <<"install", "curl">>))) = 1
           /\ \A i \in PositionsNamed(r, "yum"), j \in PositionsNamed(r, "install_docker") :
                  i < j
           /\ PositionsNamed(r, "install_docker") # {} =>
                  Cardinality(Positions(r, Cmd("yum", <<"install", "curl">>))) = 1

\* The engine installation ran after the one install of curl.
C3_Witness ==
    \E p \in Provs :
        /\ PositionsNamed(run[p], "install_docker") # {}
        /\ Cardinality(Positions(run[p], Cmd("yum", <<"install", "curl">>))) = 1
        /\ "curl" \in host[p].installed

(* -------------------------------- C4 ---------------------------------- *)

\* C4: no command of steps 8-11 is issued, and no step from 8 on is entered,
\* before a readiness probe has succeeded.  A probe whose command errors does
\* not fail the run: the run fails at the wait only when all MaxAttempts
\* probes failed, and after the probe that succeeds the run is at the step
\* that follows the wait (step 8, the options directory, in part_000).
C4_ProbeGatesConfiguration ==
    \A p \in Provs :
        LET r == run[p]
        IN /\ \A i \in 1..Len(r.issued) :
                  StepOfCmd(r.issued[i].cmd) >= 8 =>
                      \E j \in GoodProbes(r) : j < i
           /\ (StepIndex(r.pc) >= 8 \/ r.status = "Succeeded") => GoodProbes(r) # {}
           /\ (r.status = "Failed" /\ r.pc = "wait_docker") =>
                  /\ GoodProbes(r) = {}
                  /\ Cardinality(FailedProbes(r)) = MaxAttempts
           /\ (Len(r.issued) > 0 /\ IsProbe(Last(r.issued))) =>
                  IF Last(r.issued).ok
                  THEN /\ r.status = "Running"
                       /\ StepIndex(r.pc) > 7
                       /\ variant = "part_000" => r.pc = "mkdir"
                  ELSE Cardinality(FailedProbes(r)) < MaxAttempts =>
                           (r.status = "Running" /\ r.pc = "wait_docker")

\* A probe failed, a later one succeeded, and the options directory command
\* was issued.
C4_Witness ==
    \E p \in Provs :
        /\ FailedProbes(run[p]) # {}
        /\ GoodProbes(run[p]) # {}
        /\ PositionsNamed(run[p], "mkdir") # {}

(* -------------------------------- C5 ---------------------------------- *)

\* C5: the readiness wait ends with the first probe that succeeds (no probe is
\* issued after it, and step 7 is complete at once); when MaxAttempts probes
\* in a row failed the wait returns its error, Provision is Failed at step 7
\* with that error, and no command of steps 8-11 was issued.
C5_ReadinessWait ==
    \A p \in Provs :
        LET r == run[p]
        IN /\ \A i \in GoodProbes(r) :
                  /\ \A j \in 1..Len(r.issued) : j > i => ~IsProbe(r.issued[j])
                  /\ \E k \in 1..Len(r.done) : r.done[k] = 7
           /\ Cardinality(FailedProbes(r)) <= MaxAttempts
           /\ Cardinality(FailedProbes(r)) = MaxAttempts =>
                  /\ r.status = "Failed"
                  /\ r.pc = "wait_docker"
                  /\ r.err = MaxRetriesError
                  /\ \A i \in 1..Len(r.issued) : StepOfCmd(r.issued[i].cmd) <= 7
                  /\ \A k \in 1..Len(r.done) : r.done[k] < 7
           /\ r.err = MaxRetriesError =>
                  Cardinality(FailedProbes(r)) = MaxAttempts

\* The wait gave up after MaxAttempts failed probes.
C5_Witness ==
    \E p \in Provs :
        /\ run[p].err = MaxRetriesError
        /\ Cardinality(FailedProbes(run[p])) = MaxAttempts
        /\ run[p].status = "Failed"

(* -------------------------------- C6 ---------------------------------- *)

Terminal(r) == r.status \in {"Succeeded", "Failed"}

\* A run issues at most MaxAttempts probes and every other command once.
C6_BoundedCommands(r) ==
    /\ Cardinality(FailedProbes(r)) + Cardinality(GoodProbes(r)) <= MaxAttempts
    /\ \A i, j \in 1..Len(r.issued) :
           (i < j /\ ~IsProbe(r.issued[i])) => r.issued[i].cmd # r.issued[j].cmd

\* C6: when every command returns, a running Provision reaches Succeeded or
\* Failed (the wait issues at most MaxAttempts probes and every other command
\* is issued once, so the run cannot go on for ever); a run that is Succeeded
\* or Failed stays as it is and issues no further command.
C6_Terminates ==
    /\ \A p \in Provs :
           (run[p].status = "Running") ~> Terminal(run[p])
    /\ [][\A p \in Provs : C6_BoundedCommands(run'[p])]_vars
    /\ [][\A p \in Provs :
             (Terminal(run[p]) /\ run'[p].n = run[p].n) =>
                 (run'[p] = run[p] /\ host'[p] = host[p])]_vars

\* A second run ended because the wait gave up.
C6_Witness ==
    \E p \in Provs :
        /\ run[p].n = 2
        /\ run[p].status = "Failed"
        /\ run[p].pc = "wait_docker"

(* ---------------------------- C7, C8, C9 ------------------------------ *)

\* The values of the lines of a rendered text that carry the flag.
GroupArgs(text, flag) ==
    LET lines == SelectSeq(text, LAMBDA l : l.flag = flag)
    IN [i \in 1..Len(lines) |-> lines[i].arg]

\* The flags the template writes itself.
TemplateFlags ==
    {"", "OPTIONS='", "'", "-H", "--storage-driver", "--tlsverify", "--tlscacert",
     "--tlscert", "--tlskey", "--label", "--insecure-registry", "--registry-mirror"}

\* The lines of a rendered text that are none of the template's own flags.
OtherFlags(text) ==
    LET lines == SelectSeq(text, LAMBDA l : l.flag \notin TemplateFlags)
    IN [i \in 1..Len(lines) |-> lines[i].flag]

\* C7: calls of GenerateDockerOptions made in a row with the same port and
\* auth options return the same text and the same path.
C7_RenderDeterministic ==
    \A p \in Provs :
        \A i, j \in 1..Len(calls[p]) :
            (/\ i < j
             /\ calls[p][i].dockerPort = calls[p][j].dockerPort
             /\ calls[p][i].authOptions = calls[p][j].authOptions)
            => calls[p][i].out = calls[p][j].out

\* C8: in the text rendered by the part_000 template each repeated group
\* holds one line per element of the list the template ranges over, in the
\* list's order, and an empty list gives no line of the group.
C8_GroupsFollowLists ==
    \A p \in Provs :
        \A i \in 1..Len(calls[p]) :
            LET e == calls[p][i]
                text == e.out.EngineOptions
                eo == e.ctx.EngineOptions
            IN variant = "part_000" =>
                /\ GroupArgs(text, "--label") = eo.Labels
                /\ GroupArgs(text, "--insecure-registry") = eo.InsecureRegistry
                /\ GroupArgs(text, "--registry-mirror") = eo.RegistryMirror
                /\ OtherFlags(text) =
                       [k \in 1..Len(eo.ArbitraryFlags) |-> "--" \o eo.ArbitraryFlags[k]]
                /\ eo.InsecureRegistry = <<>> =>
                       \A k \in 1..Len(text) : text[k].flag # "--insecure-registry"
                /\ eo.RegistryMirror = <<>> =>
                       \A k \in 1..Len(text) : text[k].flag # "--registry-mirror"
                /\ eo.ArbitraryFlags = <<>> =>
                       \A k \in 1..Len(text) : text[k].flag \in TemplateFlags

\* A text rendered from two registries, two flags in a chosen order and no
\* mirror.
C8_Witness ==
    \E p \in Provs :
        \E i \in 1..Len(calls[p]) :
            /\ variant = "part_000"
            /\ calls[p][i].ctx.EngineOptions.InsecureRegistry = <<"reg2:5000", "reg1:5000">>
            /\ calls[p][i].ctx.EngineOptions.ArbitraryFlags = <<"selinux-enabled", "debug">>
            /\ calls[p][i].ctx.EngineOptions.RegistryMirror = <<>>
            /\ Len(calls[p][i].ctx.EngineOptions.Labels) >= 2

\* C9: the label lines of every call are the labels the caller supplied, in
\* their order, followed by exactly one provider=<driver-name> label.
C9_OneProviderLabel ==
    \A p \in Provs :
        \A i \in 1..Len(calls[p]) :
            GroupArgs(calls[p][i].out.EngineOptions, "--label") =
                Append(calls[p][i].supplied.Labels,
                       "provider=" \o prov[p].Driver.DriverName)

(* -------------------------------- C10 --------------------------------- *)

\* C10: a second successful Provision with the same arguments leaves the host
\* as the first one left it: the loopback line holds the hostname once, the
\* public zone holds the docker service once, the sudoers file is unchanged.
C10_RerunIdempotent ==
    \A p \in Provs :
        (/\ Len(run[p].ends) >= 2
         /\ run[p].ends[1].args = run[p].ends[2].args)
        => /\ run[p].ends[2].host = run[p].ends[1].host
           /\ Cardinality({k \in 1..Len(run[p].ends[2].host.hosts_loopback) :
                  run[p].ends[2].host.hosts_loopback[k] = prov[p].Driver.MachineName}) = 1
           /\ Cardinality({k \in 1..Len(run[p].ends[2].host.zone_services) :
                  run[p].ends[2].host.zone_services[k] = "docker"}) = 1
           /\ run[p].ends[2].host.sudoers = run[p].ends[1].host.sudoers

(* ------------------------------ C11 ----------------------------------- *)

\* The yum verb the claims name for an action.
ClaimedVerb(action) ==
    CASE action = "Install" -> "install"
      [] action = "Remove" -> "remove"
      [] action = "Upgrade" -> "upgrade"
      [] OTHER -> "<none>"

PackageCalls(p) == {i \in 1..Len(api[p]) : api[p][i].op = "Package"}

\* C11: Package(name, Install) issues exactly one command, holding the yum
\* verb "install" followed by the package name as given; Remove gives
\* "remove" and Upgrade gives "upgrade"; the call returns an error exactly
\* when the channel reported one for that command.
C11_PackageVerbs ==
    \A p \in live : \A i \in PackageCalls(p) :
        LET a == api[p][i]
        IN a.action \in {"Install", "Remove", "Upgrade"} =>
              /\ Len(a.issued) = 1
              /\ a.issued[1].cmd.name = "yum"
              /\ a.issued[1].cmd.args = <<ClaimedVerb(a.action), a.name>>
              /\ (a.err # Nil) <=> ~a.issued[1].ok

(* ------------------------------ C12 ----------------------------------- *)

CompatCalls(p) ==
    {i \in 1..Len(api[p]) :
        api[p][i].op = "CompatibleWithHost" /\ api[p][i].name # NilOsRelease.Id}

\* C12: the strategy is registered under the name "Centos" with the factory
\* NewCentosProvisioner, and CompatibleWithHost answers true exactly when the
\* id of the stored OsRelease is "centos": the match is exact, and the
\* id-like field is never consulted.
C12_CentosOnly ==
    /\ \A reg \in Registered : reg.name = "Centos" /\ reg.New = "NewCentosProvisioner"
    /\ \A p \in live :
          /\ prov[p].packages = NewCentosProvisioner(prov[p].Driver).packages
          /\ \A i \in CompatCalls(p) :
                /\ api[p][i].result \in {"true", "false"}
                /\ api[p][i].result = "true" <=> api[p][i].name = "centos"

\* A host whose id is "centos" was accepted and one that is only like centos
\* was refused.
C12_Witness ==
    \E p \in live : \E i, j \in CompatCalls(p) :
        /\ api[p][i].name = "centos" /\ api[p][i].result = "true"
        /\ api[p][j].name = "ol" /\ api[p][j].result = "false"
        /\ prov[p].OsReleaseInfo.IdLike = "centos"

(* ------------------------------ C13 ----------------------------------- *)

\* The positions of r.issued that belong to step s.
PositionsOfStep(r, s) == {i \in 1..Len(r.issued) : StepOfCmd(r.issued[i].cmd) = s}

\* C13: within one run the readiness probe is the only command issued again
\* after it failed; each command of every other step is attempted at most
\* once, whatever its outcome.
C13_OnlyProbeRetried ==
    \A p \in live :
        LET r == run[p]
        IN /\ \A i, j \in 1..Len(r.issued) :
                 (i < j /\ r.issued[i].cmd = r.issued[j].cmd) =>
                     /\ IsProbe(r.issued[i])
                     /\ ~r.issued[i].ok
           /\ \A i \in 1..Len(r.issued) :
                 (~r.issued[i].ok /\ ~IsProbe(r.issued[i])) => i = Len(r.issued)
           /\ Cardinality(PositionsOfStep(r, 2)) <= 2
           /\ Cardinality(PositionsOfStep(r, 4)) <= Len(prov[p].packages)
           /\ \A s \in {1, 3, 5, 6, 8, 10, 11} : Cardinality(PositionsOfStep(r, s)) <= 1

\* A run in which the probe failed and was issued again, and which then
\* failed at a later command that was issued once.
C13_Witness ==
    \E p \in live :
        LET r == run[p]
        IN /\ r.status = "Failed"
           /\ \E i, j \in 1..Len(r.issued) :
                 /\ i < j
                 /\ IsProbe(r.issued[i]) /\ ~r.issued[i].ok
                 /\ IsProbe(r.issued[j])
           /\ ~IsProbe(Last(r.issued))
           /\ ~Last(r.issued).ok
           /\ Cardinality(Positions(r, Last(r.issued).cmd)) = 1

(* ------------------------------ C14 ----------------------------------- *)

\* The step index an error value carries; 0 when it carries none.
ErrorStep(e) == IF "step" \in DOMAIN e THEN e.step ELSE 0

\* The error the failing call handed to Provision: the channel's error for
\* the last command, or the error of the readiness wait.
UnderlyingError(r) ==
    IF r.pc = "wait_docker" THEN MaxRetriesError ELSE SSHError(Last(r.issued).cmd)

\* C14: when a run fails, the error Provision returns identifies the index
\* of the step that failed and carries the underlying error unchanged.
C14_ErrorNamesStep ==
    \A p \in live :
        run[p].status = "Failed" =>
            /\ ErrorStep(run[p].err) = StepIndex(run[p].pc)
            /\ \/ run[p].err = UnderlyingError(run[p])
               \/ /\ "cause" \in DOMAIN run[p].err
                  /\ run[p].err.cause = UnderlyingError(run[p])

(* ------------------------------ C15 ----------------------------------- *)

\* The actions a version has no yum verb for.
HasNoVerb(v, action) ==
    \/ action \notin {"Install", "Remove", "Upgrade"}
    \/ v = "centos_go" /\ action = "Upgrade"

\* C15: Package called with an action the version has no verb for (Upgrade
\* in centos.go, any value outside Install, Remove, Upgrade in both) returns
\* an unsupported-action error and hands no command to the channel.
C15_UnsupportedActionFails ==
    \A p \in live : \A i \in PackageCalls(p) :
        HasNoVerb(variant, api[p][i].action) =>
            /\ api[p][i].issued = <<>>
            /\ api[p][i].err.kind = "unsupported_action"

(* ------------------------------ C16 ----------------------------------- *)

\* What provisioner p holds and has done.
StateOf(p) == <<prov[p], run[p], host[p], calls[p], api[p]>>

\* Everything p issued, stored and wrote comes from its own driver and the
\* arguments of its own Provision call.
OwnInputsOnly(p) ==
    LET r == run[p]
        d == PairDriver(p)
        tcp == "tcp://0.0.0.0:" \o ToString(d.Port)
    IN /\ prov[p].Driver = d
       /\ \A i \in 1..Len(r.issued) :
             r.issued[i].cmd.name \in {"set_hostname", "sed_hosts"} =>
                 \A k \in 1..Len(r.issued[i].cmd.args) :
                     r.issued[i].cmd.args[k] = d.MachineName
       /\ host[p].hostname \in {CleanHost.hostname, d.MachineName}
       /\ variant = "part_000" =>
             /\ prov[p].SwarmOptions = r.args.swarmOptions
             /\ prov[p].EngineOptions.StorageDriver = r.args.engineOptions.StorageDriver
             /\ prov[p].EngineOptions.Labels \in
                    {r.args.engineOptions.Labels,
                     Append(r.args.engineOptions.Labels, "provider=" \o d.DriverName)}
       /\ host[p].config # NoFile =>
             /\ \E i \in 1..Len(host[p].config.text) : host[p].config.text[i].arg = tcp
             /\ variant = "part_000" =>
                   GroupArgs(host[p].config.text, "--label") =
                       Append(r.args.engineOptions.Labels, "provider=" \o d.DriverName)
       /\ r.status = "Succeeded" => host[p].swarm = r.args.swarmOptions.IsSwarm

\* C16: two Provision runs on two distinct provisioners may interleave in
\* any order: a step of one changes nothing the other holds, and each issues
\* the commands and reaches the outcome its own driver and arguments give,
\* as it does alone.
C16_RunsIndependent ==
    /\ [](\A p \in live : OwnInputsOnly(p))
    /\ [][\A p \in Provs : \A q \in Provs \ {p} :
             StateOf(p)' # StateOf(p) => StateOf(q)' = StateOf(q)]_vars

\* Both runs are under way at once, with different arguments, and each has
\* already issued commands.
C16_Witness ==
    /\ \A p \in Provs : run[p].status = "Running" /\ Len(run[p].issued) >= 3
    /\ run["p1"].args # run["p2"].args
    /\ run["p1"].pc # run["p2"].pc

(* ------------------------------ C17 ----------------------------------- *)

\* The signal was raised during the run p is in or has just ended.
CancelledInRun(p) == cancelled[p].raised /\ cancelled[p].n = run[p].n

\* C17: once the cancellation signal is raised during a run of Provision no
\* further command is issued, and the run ends Failed with a CancelledError
\* at the step that was current when the signal was raised.
C17_CancelStopsRun ==
    \A p \in live :
        CancelledInRun(p) =>
            /\ Len(run[p].issued) = cancelled[p].issued
            /\ run[p].status # "Running" =>
                  /\ run[p].status = "Failed"
                  /\ run[p].err.kind = "cancelled"
                  /\ StepIndex(run[p].pc) = StepIndex(cancelled[p].pc)

(* ------------------------------ C18 ----------------------------------- *)

\* The TCP listen address a rendered text holds for a port.
ListensOn(text, port) ==
    \E i \in 1..Len(text) : text[i].arg = "tcp://0.0.0.0:" \o ToString(port)

\* C18: the firewall step permits the TCP port the engine listens on: once
\* step 5 has written the firewalld service definition, the port it opens is
\* the port of the tcp://0.0.0.0:<port> address of every text
\* GenerateDockerOptions renders, for every docker port passed to it.
C18_FirewallOpensEnginePort ==
    \A p \in live :
        host[p].docker_xml_port # 0 =>
            /\ \A i \in 1..Len(calls[p]) :
                  ListensOn(calls[p][i].out.EngineOptions, host[p].docker_xml_port)
            /\ host[p].config # NoFile =>
                  ListensOn(host[p].config.text, host[p].docker_xml_port)

(* ------------------------------ C19 ----------------------------------- *)

\* C19: GenerateDockerOptions has no effect beyond the value it returns: a
\* call issues no command and leaves the stored engine options (the label
\* list among them), auth options, swarm options, package list and OS
\* release of the provisioner as they were.
C19_RenderHasNoEffect ==
    [][\A p \in live :
          calls'[p] # calls[p] =>
              /\ run'[p].issued = run[p].issued
              /\ host'[p] = host[p]
              /\ prov'[p].EngineOptions = prov[p].EngineOptions
              /\ prov'[p].AuthOptions = prov[p].AuthOptions
              /\ prov'[p].SwarmOptions = prov[p].SwarmOptions
              /\ prov'[p].packages = prov[p].packages
              /\ prov'[p].OsReleaseInfo = prov[p].OsReleaseInfo]_vars

(* ------------------------------ C20 ----------------------------------- *)

\* path names something inside directory dir.
Inside(path, dir) ==
    /\ Len(path) > Len(dir) + 1
    /\ SubSeq(path, 1, Len(dir) + 1) = dir \o "/"

\* The paths GenerateDockerOptions returned to p's callers, and the path the
\* rendered text was written to.
RenderedPaths(p) ==
    {calls[p][i].out.EngineOptionsPath : i \in 1..Len(calls[p])}
        \cup (IF host[p].config # NoFile THEN {host[p].config.path} ELSE {})

\* C20 as claimed: the directory step 8 ensures holds the rendered
\* configuration file, EngineOptionsPath lies inside GetDockerOptionsDir().
C20_ConfigInsideOptionsDir ==
    \A p \in live : \A path \in RenderedPaths(p) : Inside(path, GetDockerOptionsDir)

\* C20 as amended: step 8 ensures the directory GetDockerOptionsDir() and no
\* other; the rendered configuration goes to the one fixed path
\* /etc/sysconfig/docker, which does not lie inside that directory (nor
\* the directory inside it).
C20_ConfigOutsideOptionsDir ==
    \A p \in live :
        /\ host[p].dirs \subseteq {GetDockerOptionsDir}
        /\ \A i \in 1..Len(run[p].issued) :
              run[p].issued[i].cmd.name = "mkdir" =>
                  run[p].issued[i].cmd.args = <<GetDockerOptionsDir>>
        /\ \A path \in RenderedPaths(p) :
              /\ path = "/etc/sysconfig/docker"
              /\ ~Inside(path, GetDockerOptionsDir)
              /\ ~Inside(GetDockerOptionsDir, path)

\* Step 8 made the directory, the rendered text was written, and a caller
\* rendered once more.
C20_Witness ==
    \E p \in live :
        /\ GetDockerOptionsDir \in host[p].dirs
        /\ host[p].config # NoFile
        /\ Len(calls[p]) >= 1
====
